---- MODULE Spec2Model ----
(***************************************************************************)
(* Model of stt_google.py: windowing of an audio segment (chunk_audio),    *)
(* per-window recognition and transcript assembly (transcribe_wav_google), *)
(* SRT timestamp formatting and subtitle assembly (write_srt), and the     *)
(* file-writing driver (transcribe_file).                                  *)
(*                                                                         *)
(* Strings are modelled as sequences of one-character strings so that      *)
(* strip, join and number formatting are computed character by character.  *)
(***************************************************************************)
EXTENDS Integers, Sequences, FiniteSets

VARIABLES
    len_seg,        \* len(seg): duration of the audio in ms
    chunk_ms,       \* chunk_ms parameter
    overlap_ms,     \* overlap_ms parameter
    i,              \* chunk_audio: the cursor
    chunks,         \* chunk_audio: the list of (start, end) windows
    pc,             \* position of the run
    idx,            \* transcribe_wav_google: number of windows the for loop has finished
    srt_segments,   \* transcribe_wav_google: list of (start_ms, end_ms, text)
    texts,          \* transcribe_wav_google: list of recognized texts
    full_text,      \* transcribe_wav_google: the joined transcript (None before the join)
    transcript_file,\* content of transcript.txt (None while not written)
    srt_file,       \* content of subtitles.srt / out_path (None while not written)
    outcomes,       \* history: what the recognizer did for each window submitted
    calls,          \* history: index of the window of each recognizer invocation
    txt_writes,     \* history: number of writes of transcript.txt
    srt_writes,     \* history: number of writes of the subtitle file
    ms_in,          \* ms_to_srt_time: the argument
    time_out        \* ms_to_srt_time: the returned string (None before the call)

vars == <<len_seg, chunk_ms, overlap_ms, i, chunks, pc, idx, srt_segments, texts,
          full_text, transcript_file, srt_file, outcomes, calls, txt_writes,
          srt_writes, ms_in, time_out>>

chunkVars == <<len_seg, chunk_ms, overlap_ms, i, chunks>>
recogVars == <<idx, srt_segments, texts, full_text, outcomes, calls>>
fileVars  == <<transcript_file, srt_file, txt_writes, srt_writes>>
fmtVars   == <<ms_in, time_out>>

None == "None"

----------------------------------------------------------------------------
(* Bounds of the model *)

MaxDur == 4
MaxChunk == 3
MaxOverlap == 3
MaxSegs == 2
MaxHours == 1

\* cap on the number of windows chunk_audio emits in the model: a call that
\* terminates on the durations 0..MaxDur emits at most MaxDur windows, so the
\* cap only cuts the calls whose cursor does not advance
LoopCap == MaxDur + 2

(* Program constants *)

DefaultChunkMs == 30000
DefaultOverlapMs == 1000

----------------------------------------------------------------------------
(* Characters and strings *)

SP == " "
NL == "\n"
Whitespace == {SP, NL}

Min(a, b) == IF a < b THEN a ELSE b

Digits == <<"0", "1", "2", "3", "4", "5", "6", "7", "8", "9">>

\* str(n) for n >= 0
RECURSIVE str(_)
str(n) == IF n < 10 THEN <<Digits[n + 1]>>
          ELSE str(n \div 10) \o <<Digits[(n % 10) + 1]>>

\* the format spec 0<w>d applied to the decimal digits s of a number >= 0:
\* zeros on the left up to a minimum width of w
RECURSIVE ZeroPad(_, _)
ZeroPad(s, w) == IF Len(s) >= w THEN s ELSE ZeroPad(<<"0">> \o s, w)

\* str.strip(): drop leading and trailing whitespace
RECURSIVE LStrip(_)
LStrip(s) == IF s # <<>> /\ Head(s) \in Whitespace THEN LStrip(Tail(s)) ELSE s

RECURSIVE RStrip(_)
RStrip(s) == IF s # <<>> /\ s[Len(s)] \in Whitespace
             THEN RStrip(SubSeq(s, 1, Len(s) - 1)) ELSE s

strip(s) == RStrip(LStrip(s))

\* sep.join(lines)
RECURSIVE join(_, _)
join(sep, lines) ==
    IF lines = <<>> THEN <<>>
    ELSE IF Len(lines) = 1 THEN lines[1]
    ELSE lines[1] \o sep \o join(sep, Tail(lines))

----------------------------------------------------------------------------
(* write_srt and its local ms_to_srt_time *)

ms_to_srt_time_hours60(ms) ==
    LET s1  == ms \div 1000
        ms1 == ms % 1000
        h   == s1 \div 60
        s2  == s1 % 60
        m   == s2 \div 60
        s3  == s2 % 60
    IN  ZeroPad(str(h), 2) \o <<":">> \o ZeroPad(str(m), 2) \o <<":">>
        \o ZeroPad(str(s3), 2) \o <<",">> \o ZeroPad(str(ms1), 3)

ms_to_srt_time(ms) ==
    LET s1  == ms \div 1000
        ms1 == ms % 1000
        h   == s1 \div 3600
        s2  == s1 % 3600
        m   == s2 \div 60
        s3  == s2 % 60
    IN  ZeroPad(str(h), 2) \o <<":">> \o ZeroPad(str(m), 2) \o <<":">>
        \o ZeroPad(str(s3), 2) \o <<",">> \o ZeroPad(str(ms1), 3)

\* the four lines appended for the idx-th segment
EntryLines(k, segm) ==
    << str(k),
       ms_to_srt_time(segm[1]) \o <<SP, "-", "-", ">", SP>> \o ms_to_srt_time(segm[2]),
       strip(segm[3]),
       <<>> >>

RECURSIVE SrtLines(_, _)
SrtLines(segments, k) ==
    IF k > Len(segments) THEN <<>>
    ELSE EntryLines(k, segments[k]) \o SrtLines(segments, k + 1)

RECURSIVE SrtLinesFromZero(_, _)
SrtLinesFromZero(segments, k) ==
    IF k > Len(segments) THEN <<>>
    ELSE EntryLines(k - 1, segments[k]) \o SrtLinesFromZero(segments, k + 1)

write_srt_from_zero(segments) == join(<<NL>>, SrtLinesFromZero(segments, 1))

\* the text written to out_path
write_srt(segments) == join(<<NL>>, SrtLines(segments, 1))

----------------------------------------------------------------------------
(* chunk_audio *)

WindowEnd_unclamped(cur, c, d) == cur + c

\* end = min(i + chunk_ms, len(seg))
WindowEnd(cur, c, d) == Min(cur + c, d)

ReachedEnd_never(end, d) == FALSE

\* if end == len(seg): break
ReachedEnd(end, d) == end = d

NextCursor_forward(end, o) == end + o

\* i = end - overlap_ms
NextCursor(end, o) == end - o

\* one iteration of the while loop
ChunkIter ==
    /\ pc = "chunk_audio"
    /\ i < len_seg
    /\ Len(chunks) < LoopCap
    /\ LET end == WindowEnd(i, chunk_ms, len_seg) IN
         /\ chunks' = Append(chunks, <<i, end>>)
         /\ IF ReachedEnd(end, len_seg)
            THEN /\ pc' = "recognize"
                 /\ i' = i
            ELSE /\ pc' = pc
                 /\ i' = NextCursor(end, overlap_ms)
    /\ UNCHANGED <<len_seg, chunk_ms, overlap_ms>>
    /\ UNCHANGED <<recogVars, fileVars, fmtVars>>

\* the while condition is false: return chunks
ChunkExit ==
    /\ pc = "chunk_audio"
    /\ ~(i < len_seg)
    /\ pc' = "recognize"
    /\ UNCHANGED <<chunkVars, recogVars, fileVars, fmtVars>>

----------------------------------------------------------------------------
(* transcribe_wav_google *)

\* texts recognize_google may return
RecognizedTexts == { <<>>, <<SP>>, <<"a">>, <<"a", SP>>, <<SP, "b">> }

\* the for loop has another window to process
HasNext(k, n) == k < n

KeepText_nonempty(text) == text # <<>>

\* if text.strip():
KeepText(text) == strip(text) # <<>>

JoinTexts_stripped(ts) == join(<<SP>>, [k \in DOMAIN ts |-> strip(ts[k])])

\* full_text = " ".join(texts)
JoinTexts(ts) == join(<<SP>>, ts)

\* the rest of the loop body once text is bound
LoopBody(text, kind) ==
    LET w == chunks[idx + 1] IN
    /\ calls' = Append(calls, idx + 1)
    /\ outcomes' = Append(outcomes, [kind |-> kind, text |-> text])
    /\ IF KeepText(text)
       THEN /\ srt_segments' = Append(srt_segments, <<w[1], w[2], text>>)
            /\ texts' = Append(texts, text)
       ELSE UNCHANGED <<srt_segments, texts>>
    /\ idx' = idx + 1
    /\ UNCHANGED <<pc, full_text>>
    /\ UNCHANGED <<chunkVars, fileVars, fmtVars>>

\* the loop body when an exception leaves the try statement uncaught
Propagate(kind) ==
    /\ calls' = Append(calls, idx + 1)
    /\ outcomes' = Append(outcomes, [kind |-> kind, text |-> <<>>])
    /\ pc' = "aborted"
    /\ UNCHANGED <<idx, srt_segments, texts, full_text>>
    /\ UNCHANGED <<chunkVars, fileVars, fmtVars>>

\* recognize_google returns a text
RecognizeText ==
    /\ pc = "recognize"
    /\ HasNext(idx, Len(chunks))
    /\ \E t \in RecognizedTexts : LoopBody(t, "text")

\* recognize_google raises sr.UnknownValueError
RecognizeUnknownValue ==
    /\ pc = "recognize"
    /\ HasNext(idx, Len(chunks))
    /\ LoopBody(<<>>, "UnknownValueError")

RecognizeRequestError_uncaught ==
    /\ pc = "recognize"
    /\ HasNext(idx, Len(chunks))
    /\ Propagate("RequestError")

\* recognize_google raises sr.RequestError
RecognizeRequestError ==
    /\ pc = "recognize"
    /\ HasNext(idx, Len(chunks))
    /\ LoopBody(<<>>, "RequestError")

\* the export, the record or recognize_google raises anything else
RecognizeUncaught ==
    /\ pc = "recognize"
    /\ HasNext(idx, Len(chunks))
    /\ Propagate("uncaught")

LoopEnd_early ==
    /\ pc = "recognize"
    /\ idx >= Len(chunks) - 1
    /\ full_text' = JoinTexts(texts)
    /\ pc' = "write_transcript"
    /\ UNCHANGED <<idx, srt_segments, texts, outcomes, calls>>
    /\ UNCHANGED <<chunkVars, fileVars, fmtVars>>

\* the for loop is exhausted: join the texts and return to transcribe_file
LoopEnd ==
    /\ pc = "recognize"
    /\ ~HasNext(idx, Len(chunks))
    /\ full_text' = JoinTexts(texts)
    /\ pc' = "write_transcript"
    /\ UNCHANGED <<idx, srt_segments, texts, outcomes, calls>>
    /\ UNCHANGED <<chunkVars, fileVars, fmtVars>>

----------------------------------------------------------------------------
(* transcribe_file *)

\* Path("transcript.txt").write_text(text)
WriteTranscript ==
    /\ pc = "write_transcript"
    /\ transcript_file' = full_text
    /\ txt_writes' = txt_writes + 1
    /\ pc' = "write_srt"
    /\ UNCHANGED <<srt_file, srt_writes>>
    /\ UNCHANGED <<chunkVars, recogVars, fmtVars>>

\* write_srt(segments, "subtitles.srt")
WriteSrt ==
    /\ pc = "write_srt"
    /\ srt_file' = write_srt(srt_segments)
    /\ srt_writes' = srt_writes + 1
    /\ pc' = "done"
    /\ UNCHANGED <<transcript_file, txt_writes>>
    /\ UNCHANGED <<chunkVars, recogVars, fmtVars>>

\* a call of ms_to_srt_time
FormatTime ==
    /\ pc = "ms_to_srt_time"
    /\ time_out' = ms_to_srt_time(ms_in)
    /\ pc' = "done"
    /\ UNCHANGED ms_in
    /\ UNCHANGED <<chunkVars, recogVars, fileVars>>

----------------------------------------------------------------------------
(* Specifications *)

\* (chunk_ms, overlap_ms) pairs: small values and the defaults transcribe_file uses
Configs == ((1..MaxChunk) \X (0..MaxOverlap)) \cup {<<DefaultChunkMs, DefaultOverlapMs>>}

Durations(c) ==
    IF c = DefaultChunkMs
    THEN {0, DefaultOverlapMs, DefaultChunkMs, DefaultChunkMs + 1,
          2 * DefaultChunkMs - DefaultOverlapMs, 2 * DefaultChunkMs - DefaultOverlapMs + 1}
    ELSE 0..MaxDur

InitLocals ==
    /\ i = 0
    /\ chunks = <<>>
    /\ idx = 0
    /\ srt_segments = <<>>
    /\ texts = <<>>
    /\ full_text = None
    /\ transcript_file = None
    /\ srt_file = None
    /\ outcomes = <<>>
    /\ calls = <<>>
    /\ txt_writes = 0
    /\ srt_writes = 0
    /\ ms_in = 0
    /\ time_out = None

\* a run of transcribe_file over an audio of any duration and any window configuration
Init ==
    /\ \E cfg \in Configs :
         /\ chunk_ms = cfg[1]
         /\ overlap_ms = cfg[2]
         /\ len_seg \in Durations(cfg[1])
    /\ pc = "chunk_audio"
    /\ InitLocals

Next ==
    \/ ChunkIter
    \/ ChunkExit
    \/ RecognizeText
    \/ RecognizeUnknownValue
    \/ RecognizeRequestError
    \/ RecognizeUncaught
    \/ LoopEnd
    \/ WriteTranscript
    \/ WriteSrt

Spec == Init /\ [][Next]_vars

\* segment lists handed to write_srt directly
SrtTimes == {0, 1000, 2000}
SrtTexts == { <<"a">>, <<"b">>, <<SP, "a", SP>>, <<"a", NL>> }
SrtSegment == SrtTimes \X SrtTimes \X SrtTexts

RECURSIVE SeqsUpTo(_, _)
SeqsUpTo(S, n) ==
    IF n = 0 THEN {<<>>}
    ELSE LET shorter == SeqsUpTo(S, n - 1) IN
         shorter \cup {Append(q, e) : q \in {r \in shorter : Len(r) = n - 1}, e \in S}

\* a call of write_srt on any segment list
InitSrt ==
    /\ len_seg = 0
    /\ chunk_ms = DefaultChunkMs
    /\ overlap_ms = DefaultOverlapMs
    /\ i = 0
    /\ chunks = <<>>
    /\ idx = 0
    /\ srt_segments \in SeqsUpTo(SrtSegment, MaxSegs)
    /\ texts = <<>>
    /\ full_text = None
    /\ transcript_file = None
    /\ srt_file = None
    /\ outcomes = <<>>
    /\ calls = <<>>
    /\ txt_writes = 0
    /\ srt_writes = 0
    /\ ms_in = 0
    /\ time_out = None
    /\ pc = "write_srt"

NextSrt == WriteSrt

SpecSrt == InitSrt /\ [][NextSrt]_vars

\* arguments of ms_to_srt_time around every field boundary
MsInputs ==
    { h * 3600000 + m * 60000 + s * 1000 + f :
        h \in (0..MaxHours) \cup {99, 100}, m \in {0, 1, 59},
        s \in {0, 1, 59}, f \in {0, 9, 234, 999} }

\* a call of ms_to_srt_time on any argument
InitFmt ==
    /\ len_seg = 0
    /\ chunk_ms = DefaultChunkMs
    /\ overlap_ms = DefaultOverlapMs
    /\ i = 0
    /\ chunks = <<>>
    /\ idx = 0
    /\ srt_segments = <<>>
    /\ texts = <<>>
    /\ full_text = None
    /\ transcript_file = None
    /\ srt_file = None
    /\ outcomes = <<>>
    /\ calls = <<>>
    /\ txt_writes = 0
    /\ srt_writes = 0
    /\ ms_in \in MsInputs
    /\ time_out = None
    /\ pc = "ms_to_srt_time"

NextFmt == FormatTime

SpecFmt == InitFmt /\ [][NextFmt]_vars

----------------------------------------------------------------------------
(* Properties of chunk_audio *)

Returned == pc # "chunk_audio"

Start(k) == chunks[k][1]
End(k) == chunks[k][2]

\* C1: for 0 < O < C <= D the returned window list is ordered, its first
\* window starts at 0, its last window ends exactly at D, every non-final
\* window has length exactly C, and the windows cover [0, D) without a gap
\* (each window starts at or before the end of the previous one).
C1_WindowsCover ==
    (Returned /\ 0 < overlap_ms /\ overlap_ms < chunk_ms /\ chunk_ms <= len_seg) =>
        /\ Len(chunks) >= 1
        /\ Start(1) = 0
        /\ End(Len(chunks)) = len_seg
        /\ \A k \in 1..(Len(chunks) - 1) :
              /\ End(k) - Start(k) = chunk_ms
              /\ Start(k + 1) <= End(k)
              /\ Start(k) < Start(k + 1)
              /\ End(k) <= End(k + 1)
        /\ (pc = "recognize" /\ idx = 0) =>
              \A t \in 0..(len_seg - 1) :
                  \E k \in 1..Len(chunks) : Start(k) <= t /\ t < End(k)

C1_Witness ==
    /\ pc = "recognize" /\ idx = 0
    /\ 0 < overlap_ms /\ overlap_ms < chunk_ms /\ chunk_ms <= len_seg
    /\ Len(chunks) >= 2
    /\ End(Len(chunks)) - Start(Len(chunks)) < chunk_ms

\* C2 as stated: whenever D <= C (any overlap), chunk_audio produces exactly
\* one window, and that window is (0, D).
C2_OneWindowAnyDuration ==
    (len_seg <= chunk_ms) =>
        \/ pc = "chunk_audio" /\ chunks = <<>>
        \/ Returned /\ chunks = << <<0, len_seg>> >>

\* C2 amended: whenever 0 < D <= C (any overlap), chunk_audio produces exactly
\* one window, and that window is (0, D); for D = 0 it produces no window.
C2_OneWindow ==
    (len_seg <= chunk_ms) =>
        \/ pc = "chunk_audio" /\ chunks = <<>>
        \/ Returned /\ len_seg > 0 /\ chunks = << <<0, len_seg>> >>
        \/ Returned /\ len_seg = 0 /\ chunks = <<>>

C2_Witness ==
    /\ Returned
    /\ 0 < len_seg /\ len_seg < chunk_ms /\ overlap_ms >= chunk_ms
    /\ chunks = << <<0, len_seg>> >>

\* C4 as stated: for every D >= 0, chunk_ms > 0 and overlap_ms >= 0,
\* including overlap_ms >= chunk_ms, the cursor of chunk_audio never fails to
\* advance: every iteration that continues the loop moves the cursor forward.
C4_CursorAdvances ==
    [][(pc = "chunk_audio" /\ pc' = "chunk_audio") => i' > i]_vars

\* C8: for D > 0, C > 0 and 0 <= O < C, every pair of consecutive windows,
\* the pair ending in the final truncated window included, satisfies
\* next.start = prev.end - O and next.start > prev.start, and every window
\* has 0 <= start < end <= D.
C8_ConsecutiveOverlap ==
    (len_seg > 0 /\ chunk_ms > 0 /\ 0 <= overlap_ms /\ overlap_ms < chunk_ms) =>
        /\ \A k \in 1..(Len(chunks) - 1) :
              /\ Start(k + 1) = End(k) - overlap_ms
              /\ Start(k + 1) > Start(k)
        /\ \A k \in 1..Len(chunks) :
              0 <= Start(k) /\ Start(k) < End(k) /\ End(k) <= len_seg
        /\ (pc = "chunk_audio" /\ chunks # <<>>) => i > Start(Len(chunks))

C8_Witness ==
    /\ Returned
    /\ 0 < overlap_ms /\ overlap_ms < chunk_ms
    /\ Len(chunks) >= 3
    /\ End(Len(chunks)) - Start(Len(chunks)) < chunk_ms
    /\ Start(Len(chunks)) = End(Len(chunks) - 1) - overlap_ms

----------------------------------------------------------------------------
(* Properties of transcribe_wav_google and transcribe_file *)

Caught == {"UnknownValueError", "RequestError"}

LoopOver == pc \in {"write_transcript", "write_srt", "done"}

\* the text has a character that is not whitespace
NonBlank(text) == \E j \in 1..Len(text) : text[j] \notin Whitespace

\* C3: when every recognition outcome is a text, an UnknownValueError or a
\* RequestError, the run never aborts; a window whose recognition raised
\* either error contributes no segment and no transcript text; the run can
\* always take its next step, and it ends only after every window has been
\* submitted to the recognizer.
C3_FailuresSkipWindow ==
    /\ (\A k \in DOMAIN outcomes : outcomes[k].kind \in Caught \cup {"text"})
          => pc # "aborted"
    /\ \A k \in DOMAIN outcomes :
          outcomes[k].kind \in Caught =>
              \A n \in DOMAIN srt_segments :
                  <<srt_segments[n][1], srt_segments[n][2]>> # chunks[k]
    /\ Len(texts) = Len(srt_segments)
    /\ Len(texts) <= Cardinality({k \in DOMAIN outcomes : outcomes[k].kind = "text"})
    /\ pc \in {"recognize", "write_transcript", "write_srt"} => ENABLED Next
    /\ LoopOver => /\ idx = Len(chunks)
                   /\ calls = [k \in 1..Len(chunks) |-> k]

C3_Witness ==
    /\ pc = "done"
    /\ \E k, m, n \in DOMAIN outcomes :
          /\ k < m /\ m < n
          /\ outcomes[k].kind = "RequestError"
          /\ outcomes[m].kind = "UnknownValueError"
          /\ outcomes[n].kind = "text"
          /\ \E q \in DOMAIN srt_segments :
                <<srt_segments[q][1], srt_segments[q][2]>> = chunks[n]

\* offset in the transcript of the text of the k-th segment
RECURSIVE Offset(_)
Offset(k) == IF k = 1 THEN 0 ELSE Offset(k - 1) + Len(srt_segments[k - 1][3]) + 1

\* C7: the full transcript is the texts of the segments, in order, with
\* exactly one space between consecutive texts and nothing before the first
\* or after the last text, whatever whitespace the texts themselves carry.
C7_TranscriptJoin ==
    LoopOver =>
        LET n == Len(srt_segments) IN
        /\ n = 0 => full_text = <<>>
        /\ n > 0 => Len(full_text) = Offset(n) + Len(srt_segments[n][3])
        /\ \A k \in 1..n :
              SubSeq(full_text, Offset(k) + 1, Offset(k) + Len(srt_segments[k][3]))
                  = srt_segments[k][3]
        /\ \A k \in 1..(n - 1) :
              full_text[Offset(k) + Len(srt_segments[k][3]) + 1] = SP

C7_Witness ==
    /\ pc = "done"
    /\ Len(srt_segments) >= 3
    /\ srt_segments[1][3] = <<"a", SP>>
    /\ srt_segments[2][3] = <<SP, "b">>
    /\ transcript_file = <<"a", SP, SP, SP, "b", SP, "a">>

\* the segments the first k processed windows must have produced
RECURSIVE SegmentsOf(_)
SegmentsOf(k) ==
    IF k = 0 THEN <<>>
    ELSE IF outcomes[k].kind = "text" /\ NonBlank(outcomes[k].text)
         THEN Append(SegmentsOf(k - 1), <<chunks[k][1], chunks[k][2], outcomes[k].text>>)
         ELSE SegmentsOf(k - 1)

\* C9: at every point of the run the segment list holds, in window order,
\* exactly one segment (start, end, text) for each processed window whose
\* recognized text is non-empty after trimming and none for the others;
\* segment starts are strictly increasing and there are no more segments
\* than windows.
C9_SegmentsFollowWindows ==
    Returned =>
        /\ idx <= Len(chunks)
        /\ srt_segments = SegmentsOf(idx)
        /\ \A k \in 1..(Len(srt_segments) - 1) :
              srt_segments[k][1] < srt_segments[k + 1][1]
        /\ Len(srt_segments) <= Len(chunks)

C9_Witness ==
    /\ pc = "recognize"
    /\ idx >= 3
    /\ outcomes[1].kind = "text" /\ outcomes[1].text = <<SP>>
    /\ outcomes[2].kind = "text" /\ outcomes[2].text = <<SP, "b">>
    /\ outcomes[3].kind = "text" /\ outcomes[3].text = <<"a">>
    /\ Len(srt_segments) = 2

\* C10: the recognizer is invoked exactly once per window, one at a time in
\* increasing window order; each output file is written at most once and only
\* after the last window has been processed, exactly once in a finished run,
\* and not at all in a run ended by an uncaught failure.
C10_WritesAtEnd ==
    /\ pc # "aborted" => calls = [k \in 1..idx |-> k]
    /\ pc = "aborted" => calls = [k \in 1..(idx + 1) |-> k]
    /\ txt_writes <= 1 /\ srt_writes <= 1
    /\ (txt_writes > 0 \/ srt_writes > 0) =>
          /\ pc \in {"write_srt", "done"}
          /\ idx = Len(chunks)
          /\ srt_writes <= txt_writes
    /\ pc = "done" => /\ txt_writes = 1 /\ srt_writes = 1
                      /\ calls = [k \in 1..Len(chunks) |-> k]
    /\ pc = "aborted" => txt_writes = 0 /\ srt_writes = 0

C10_Witness ==
    /\ pc = "done"
    /\ Len(chunks) >= 3
    /\ txt_writes = 1 /\ srt_writes = 1
    /\ calls = <<1, 2, 3>>

----------------------------------------------------------------------------
(* Properties of write_srt *)

DigitChars == {Digits[d] : d \in 1..10}

DigitVal(c) == CHOOSE d \in 0..9 : Digits[d + 1] = c

RECURSIVE DecValue(_)
DecValue(s) ==
    IF s = <<>> THEN 0
    ELSE DecValue(SubSeq(s, 1, Len(s) - 1)) * 10 + DigitVal(s[Len(s)])

\* C5: for ms >= 0 the result reads HH:MM:SS,mmm with HH = ms div 3600000,
\* MM = (ms div 60000) mod 60, SS = (ms div 1000) mod 60, mmm = ms mod 1000,
\* hours, minutes and seconds padded with zeros to 2 digits and milliseconds
\* to 3; 0 gives 00:00:00,000, 61234 gives 00:01:01,234 and 3661000 gives
\* 01:01:01,000.
C5_TimestampFormat ==
    (pc = "done" /\ ms_in >= 0) =>
        LET n == Len(time_out) IN
        /\ n >= 12
        /\ time_out[n - 3] = ","
        /\ time_out[n - 6] = ":"
        /\ time_out[n - 9] = ":"
        /\ \A j \in (1..n) \ {n - 3, n - 6, n - 9} : time_out[j] \in DigitChars
        /\ DecValue(SubSeq(time_out, n - 2, n)) = ms_in % 1000
        /\ DecValue(SubSeq(time_out, n - 5, n - 4)) = (ms_in \div 1000) % 60
        /\ DecValue(SubSeq(time_out, n - 8, n - 7)) = (ms_in \div 60000) % 60
        /\ DecValue(SubSeq(time_out, 1, n - 10)) = ms_in \div 3600000
        /\ n > 12 => time_out[1] # "0"
        /\ ms_in = 0 =>
              time_out = <<"0", "0", ":", "0", "0", ":", "0", "0", ",", "0", "0", "0">>
        /\ ms_in = 61234 =>
              time_out = <<"0", "0", ":", "0", "1", ":", "0", "1", ",", "2", "3", "4">>
        /\ ms_in = 3661000 =>
              time_out = <<"0", "1", ":", "0", "1", ":", "0", "1", ",", "0", "0", "0">>

C5_Witness ==
    /\ pc = "done"
    /\ ms_in = 61234
    /\ time_out = <<"0", "0", ":", "0", "1", ":", "0", "1", ",", "2", "3", "4">>

\* the k-th entry: the line k, the time range line and the trimmed text,
\* each ended by a newline
EntryText(k) ==
    str(k) \o <<NL>>
    \o ms_to_srt_time(srt_segments[k][1]) \o <<SP, "-", "-", ">", SP>>
    \o ms_to_srt_time(srt_segments[k][2]) \o <<NL>>
    \o strip(srt_segments[k][3]) \o <<NL>>

\* the entries k..n, each followed by a blank line; the last one only if asked
RECURSIVE Entries(_, _)
Entries(k, blankAfterLast) ==
    IF k > Len(srt_segments) THEN <<>>
    ELSE EntryText(k)
         \o (IF k < Len(srt_segments) \/ blankAfterLast THEN <<NL>> ELSE <<>>)
         \o Entries(k + 1, blankAfterLast)

====
